---- MODULE Spec2Model ----
(***************************************************************************)
(* Model of hash_art: the block approximators of src/main.rs and           *)
(* src/compute.rs and the tiling driver approximate_image of src/main.rs.  *)
(*                                                                         *)
(* Three entry points are modelled, selected by prog:                      *)
(*   "main"  main() of main.rs: load, map_colors, approximate_image with   *)
(*           the Sha512CpuApproximator of main.rs (N = 8);                 *)
(*   "cpu16" one call of compute.rs Sha512CpuApproximator::approximate     *)
(*           (N = 16) on a caller-supplied block pair;                     *)
(*   "wgpu"  one call of compute.rs WgpuApproximator::approximate.         *)
(*                                                                         *)
(* f32 values: every finite error of the model is a non-negative integer   *)
(* below 2^24 until it is accumulated, hence exact in f32; F32_MAX and     *)
(* F32_INF stand for f32::MAX and +infinity and are the two largest        *)
(* values of the order.                                                    *)
(***************************************************************************)
EXTENDS Integers, Sequences, FiniteSets, Bags, TLC

VARIABLES
    prog,           \* entry point: "main", "cpu16" or "wgpu"
    build,          \* "debug" (overflow checks on) or "release" (wrapping)
    pc,             \* position of the program
    iterations,     \* Sha512CpuApproximator.iterations
    origin,         \* main: channel 0 of the image read from args.origin
    input,          \* main: origin after map_colors (approximate_image's input)
    target,         \* main: the image read from args.target
    result_origin,  \* approximate_image: first output image
    result_target,  \* approximate_image: second output image
    i, j,           \* approximate_image: loop indices
    total_error,    \* approximate_image: accumulated error
    src_block,      \* approximate: the input argument
    tgt_block,      \* approximate: the target argument
    best_origin,    \* approximate: best_origin / best_source
    best_target,    \* approximate: best_target
    error,          \* approximate: best error so far
    iter,           \* approximate: iterations of the for loop completed
    backend,        \* wgpu: what the compute backend does on this call
    ret,            \* value returned to the caller (<<>> while none)
    stdout,         \* lines printed
    panic,          \* "none" or the panic that ended the program
    trials,         \* history: the trials of the current approximate call
    calls,          \* history: the approximate calls of approximate_image
    wcount_origin,  \* history: put_pixel calls per pixel of result_origin
    wcount_target   \* history: put_pixel calls per pixel of result_target

vars == <<prog, build, pc, iterations, origin, input, target, result_origin,
          result_target, i, j, total_error, src_block, tgt_block, best_origin,
          best_target, error, iter, backend, ret, stdout, panic, trials, calls,
          wcount_origin, wcount_target>>

imgVars == <<origin, input, target, result_origin, result_target, i, j,
             total_error, calls, wcount_origin, wcount_target>>

searchVars == <<src_block, tgt_block, best_origin, best_target, error, iter,
                trials>>

----------------------------------------------------------------------------
(* Bounds of the model *)

\* largest iteration count K explored
MaxK == 2

\* perturbation samples 0..MaxDelta are drawn in each trial
MaxDelta == 1

----------------------------------------------------------------------------
(* Program constants *)

N_main == 8

N_compute == 16

DISTORTION == 2

OVERFLOW == 255

\* the literal 8 of approximate_image
Tile == 8

\* byte length of a Sha512 digest
DigestLen == 64

\* f32::MAX, the second largest value of the modelled f32 order
F32_MAX == 2147483646

\* +infinity, the result of f32::MAX + f32::MAX
F32_INF == 2147483647

\* 2^24: every integer up to it is exactly representable in f32
F32_EXACT == 16777216

\* side length of the blocks of the running entry point
N == IF prog = "main" THEN N_main ELSE N_compute

----------------------------------------------------------------------------
(* u8 and f32 arithmetic *)

\* p[0].saturating_sub(DISTORTION)
SaturatingSub(a, b) == IF a >= b THEN a - b ELSE 0

\* u8 + u8 in a release build
WrappingAdd(a, b) == (a + b) % 256

\* u8 + u8 overflows
AddOverflows(a, b) == a + b > 255

\* the spacing of the f32 values around the non-negative integer x
RECURSIVE Quantum(_)
Quantum(x) == IF x < F32_EXACT THEN 1 ELSE 2 * Quantum(x \div 2)

\* round a non-negative integer to the nearest f32 (ties to even)
RoundF32(x) ==
    LET q  == Quantum(x)
        lo == (x \div q) * q
        r  == x - lo
    IN  IF 2 * r < q THEN lo
        ELSE IF 2 * r > q THEN lo + q
        ELSE IF (lo \div q) % 2 = 0 THEN lo ELSE lo + q

\* f32 + f32 on the values of the model
F32Add(a, b) ==
    IF a = F32_INF \/ b = F32_INF THEN F32_INF
    ELSE IF a = F32_MAX /\ b = F32_MAX THEN F32_INF
    ELSE IF a = F32_MAX \/ b = F32_MAX THEN F32_MAX
    ELSE RoundF32(a + b)

----------------------------------------------------------------------------
(* Images (image::ImageBuffer<Luma<u8>, Vec<u8>>) and blocks (Array2<u8>) *)

\* an image is [w, h, px]: px holds the pixels row by row, as the Vec<u8>
PixelIndex(img, x, y) == y * img.w + x + 1

GetPixel(img, x, y) == img.px[PixelIndex(img, x, y)]

\* x and y of the k-th element of px
PixelX(img, k) == (k - 1) % img.w

PixelY(img, k) == (k - 1) \div img.w

\* collect() of an iterator: the sequence of its items
Collect(f) == SubSeq(f, 1, Len(f))

\* a block (Array2<u8>, standard layout) is [dim, data]: dim = <<rows,
\* columns>> and data holds the cells in row-major order
Array2(n, cells) == [dim |-> <<n, n>>, data |-> Collect(cells)]

\* blk[[m, n]], m and n from 0
Cell(blk, m, n) == blk.data[m * blk.dim[2] + n + 1]

\* Array2::<u8>::zeros((n, n))
Zeros(n) == Array2(n, [k \in 1..(n * n) |-> 0])

\* as_slice() / to_slice() of a standard-layout array
AsSlice(blk) == blk.data

\* Array::from_iter(bytes).into_shape((n, n)) and Array2::from_shape_vec((n, n),
\* bytes): an Err when the length is not n * n, else the bytes in row-major
\* order
IntoShape(bytes, n) ==
    IF Len(bytes) = n * n
    THEN [ok |-> TRUE, blk |-> Array2(n, bytes)]
    ELSE [ok |-> FALSE, blk |-> [dim |-> <<0, 0>>, data |-> <<>>]]

\* map_colors(&origin, |p| Luma([p[0].saturating_sub(DISTORTION)]))
MapColors(img) ==
    [img EXCEPT !.px = [k \in 1..Len(img.px) |-> SaturatingSub(img.px[k], DISTORTION)]]

\* image::imageops::grayscale of a Luma<u8> image: a copy
Grayscale(img) == img

\* crop(img, x0, y0, 8, 8).to_image().ref_ndarray2(): cell [row, column] is
\* the pixel (x0 + column, y0 + row)
Crop(img, x0, y0) ==
    Array2(Tile, [k \in 1..(Tile * Tile) |->
        GetPixel(img, x0 + ((k - 1) % Tile), y0 + ((k - 1) \div Tile))])

\* mutation: the block indexed [(m, n)] in place of [(n, m)]
BlockCellAtTransposed(blk, ti, tj, x, y) == Cell(blk, x - ti * Tile, y - tj * Tile)

\* the pixel that the loops over n and m put at (x, y) of tile (ti, tj):
\* put_pixel(ti * 8 + m, tj * 8 + n, blk[(n, m)])
BlockCellAt(blk, ti, tj, x, y) == Cell(blk, y - tj * Tile, x - ti * Tile)

InTile(ti, tj, x, y) ==
    /\ ti * Tile <= x /\ x < ti * Tile + Tile
    /\ tj * Tile <= y /\ y < tj * Tile + Tile

\* the image after the 64 put_pixel calls of tile (ti, tj)
PutBlock(img, ti, tj, blk) ==
    [img EXCEPT !.px = [k \in 1..Len(img.px) |->
        IF InTile(ti, tj, PixelX(img, k), PixelY(img, k))
        THEN BlockCellAt(blk, ti, tj, PixelX(img, k), PixelY(img, k))
        ELSE img.px[k]]]

\* the put_pixel counts after the 64 put_pixel calls of tile (ti, tj)
CountBlock(cnt, img, ti, tj) ==
    [k \in 1..Len(img.px) |->
        IF InTile(ti, tj, PixelX(img, k), PixelY(img, k)) THEN cnt[k] + 1 ELSE cnt[k]]

\* the ranges of the two loops of approximate_image
TilesX(img) == img.w \div Tile

TilesY(img) == img.h \div Tile

----------------------------------------------------------------------------
(* One trial of Sha512CpuApproximator::approximate *)

\* Array::random((N, N), Uniform::new(0, DISTORTION)): sample p of the
\* perturbations, every cell in 0..DISTORTION-1.  Samples 0 and 1 set the
\* cells whose row-major index has bit 0, bit 1 set; sample 2 is all zero,
\* sample 3 all DISTORTION-1, sample p >= 4 sets the cells with bit p-2 set.
DeltaCell(p, k) ==
    CASE p = 2 -> 0
      [] p = 3 -> DISTORTION - 1
      [] p < 2 -> (k \div (2 ^ p)) % DISTORTION
      [] OTHER -> (k \div (2 ^ (p - 2))) % DISTORTION

Delta(p, n) == Array2(n, [k \in 1..(n * n) |-> DeltaCell(p, k - 1)])

\* delta + input panics in a build with overflow checks
DeltaOverflows(delta, blk, n) ==
    \E k \in 1..(n * n) : AddOverflows(delta.data[k], blk.data[k])

\* delta + input, element-wise
AddBlocks(delta, blk, n) ==
    Array2(n, [k \in 1..(n * n) |-> WrappingAdd(delta.data[k], blk.data[k])])

\* the sum of the naturals s[lo..hi]: the cardinality of the bag holding
\* s[k] + 1 copies of each k, less the one copy added for each k
SumRange(s, lo, hi) ==
    IF lo > hi THEN 0
    ELSE BagCardinality([k \in lo..hi |-> s[k] + 1]) - (hi - lo + 1)

SumTo(s, k) == SumRange(s, 1, k)

WeightedSumTo(s, k) == SumRange(Collect([x \in 1..k |-> x * s[x]]), 1, k)

\* Sha512::new(), update(bytes), finalize(): the sha2 crate is used only as
\* a deterministic function from a byte string to DigestLen bytes; a fixed
\* mixing function of that signature stands for it.
Sha512(bytes) ==
    LET s == SumTo(bytes, Len(bytes)) % 256
        w == WeightedSumTo(bytes, Len(bytes)) % DigestLen
    IN  Collect([k \in 1..DigestLen |->
            (7 * s + 4 * ((k + w) % DigestLen) + (s % 4)) % 256])

\* the loops over m and n: the sum of (target[[m, n]] - current_target[[m, n]])^2
SquaredError(tgt, cur, n) ==
    SumRange([k \in 1..(n * n) |->
        LET val == Cell(tgt, (k - 1) \div n, (k - 1) % n)
                   - Cell(cur, (k - 1) \div n, (k - 1) % n)
        IN  val * val], 1, n * n)

\* mutation: if error >= total_error
ImprovesOrTies(err, trial_error) == err >= trial_error

\* if error > total_error
Improves(err, trial_error) == err > trial_error

\* mutation: error = total_error moved out of the if
NextErrorLast(err, trial_error) == trial_error

\* the assignment error = total_error under the if
NextError(err, trial_error) ==
    IF Improves(err, trial_error) THEN trial_error ELSE err

\* the assignment best_origin = current_origin under the if
NextOrigin(err, trial_error, best, current) ==
    IF Improves(err, trial_error) THEN current ELSE best

\* mutation: best_target = current_target moved out of the if
NextTargetLast(err, trial_error, best, current) == current

\* the assignment best_target = current_target under the if
NextTarget(err, trial_error, best, current) ==
    IF Improves(err, trial_error) THEN current ELSE best

----------------------------------------------------------------------------
(* WgpuApproximator *)

\* shader.wgsl, the kernel run on every element; k selects one of the
\* mappings the kernel may compute, OVERFLOW being its overflow sentinel
Kernel(k, b) ==
    IF k = 0 THEN 255 - b
    ELSE IF b % 2 = 0 THEN b \div 2 ELSE OVERFLOW

\* execute_gpu and execute_gpu_inner on the backend b:
\*   no_adapter   request_adapter(..).await? yields None
\*   device_error request_device(..).await.unwrap() panics
\*   skipped      info.vendor == 0x10005: return None
\*   map_failed   receiver.receive() is not Some(Ok(())): panic!
\*   ok           Some(the staging buffer's bytes)
ExecuteGpu(b, numbers) ==
    CASE b.kind = "no_adapter"   -> [kind |-> "None", data |-> <<>>, msg |-> ""]
      [] b.kind = "device_error" ->
            [kind |-> "panic", data |-> <<>>,
             msg |-> "called Result::unwrap() on an Err value"]
      [] b.kind = "skipped"      -> [kind |-> "None", data |-> <<>>, msg |-> ""]
      [] b.kind = "map_failed"   ->
            [kind |-> "panic", data |-> <<>>, msg |-> "failed to run compute on gpu!"]
      [] OTHER ->
            [kind |-> "Some", msg |-> "",
             data |-> [k \in 1..Len(numbers) |-> Kernel(b.kernel, numbers[k])]]

\* the closure of run: match n { OVERFLOW => 0, _ => n }
Remap(b) == IF b = OVERFLOW THEN 0 ELSE b

\* mutation: unwrap_or_default() in place of unwrap()
RunOrDefault(r) ==
    CASE r.kind = "panic" -> r
      [] OTHER ->
            [kind |-> "Some", msg |-> "",
             data |-> [k \in 1..Len(r.data) |-> Remap(r.data[k])]]

\* run: self.execute_gpu(numbers).await.unwrap(), then the map
Run(r) ==
    CASE r.kind = "None"  ->
            [kind |-> "panic", data |-> <<>>,
             msg |-> "called Option::unwrap() on a None value"]
      [] r.kind = "panic" -> r
      [] OTHER ->
            [kind |-> "Some", msg |-> "",
             data |-> [k \in 1..Len(r.data) |-> Remap(r.data[k])]]

\* mutation: (0.0, result.clone(), result)
WgpuTripleResult(inp, result) == <<0, result, result>>

\* (0.0, input.to_owned(), result)
WgpuTriple(inp, result) == <<0, inp, result>>

----------------------------------------------------------------------------
(* Inputs *)

\* the images and blocks the entry points are run on
SamplePixel(s, x, y) ==
    CASE s = 0 -> 100
      [] s = 1 -> 255 - ((x + 2 * y) % 4)
      [] s = 2 -> (7 * x + 13 * y) % 256
      [] OTHER -> 0

SampleImage(s, w, h) ==
    [w |-> w, h |-> h,
     px |-> [k \in 1..(w * h) |-> SamplePixel(s, (k - 1) % w, (k - 1) \div w)]]

SampleBlock(s, n) ==
    Array2(n, [k \in 1..(n * n) |-> SamplePixel(s, (k - 1) % n, (k - 1) \div n)])

OriginSamples == {0, 1, 2}

TargetSamples == {2, 3}

Dims == {<<16, 16>>, <<17, 9>>, <<7, 16>>, <<12, 20>>}

\* the runs of main: every sample pair in both builds on the small images;
\* on the 16 x 16 image the constant pair in a release build and the pair
\* with the brightest origin in a build with overflow checks
Builds == {"debug", "release"}

MainInputs ==
    {x \in Dims \X OriginSamples \X TargetSamples \X Builds :
        x[1] = <<16, 16>> =>
            <<x[2], x[3], x[4]>> \in {<<0, 3, "release">>, <<1, 2, "debug">>}}

Backends ==
    {[kind |-> k, kernel |-> 0] : k \in {"no_adapter", "device_error", "skipped", "map_failed"}}
    \cup {[kind |-> "ok", kernel |-> k] : k \in {0, 1}}

NoImage == [w |-> 0, h |-> 0, px |-> <<>>]

NoBlock == [dim |-> <<0, 0>>, data |-> <<>>]

NoBackend == [kind |-> "unused", kernel |-> 0]

----------------------------------------------------------------------------
(* Initial states *)

InitCommon ==
    /\ pc = "start"
    /\ build \in Builds
    /\ result_origin = NoImage
    /\ result_target = NoImage
    /\ input = NoImage
    /\ i = 0
    /\ j = 0
    /\ total_error = 0
    /\ best_origin = NoBlock
    /\ best_target = NoBlock
    /\ error = F32_MAX
    /\ iter = 0
    /\ ret = <<>>
    /\ stdout = <<>>
    /\ panic = "none"
    /\ trials = <<>>
    /\ calls = <<>>
    /\ wcount_origin = <<>>
    /\ wcount_target = <<>>

\* main: args.origin and args.target have been opened
InitMain ==
    /\ prog = "main"
    /\ iterations \in 0..MaxK
    /\ \E d \in Dims, td \in Dims, so \in OriginSamples, st \in TargetSamples :
          /\ td \in {d, <<16, 16>>}
          /\ <<d, so, st, build>> \in MainInputs
          /\ origin = SampleImage(so, d[1], d[2])
          /\ target = SampleImage(st, td[1], td[2])
    /\ src_block = NoBlock
    /\ tgt_block = NoBlock
    /\ backend = NoBackend

\* compute.rs: a caller holds a Sha512CpuApproximator and a block pair
InitCpu16 ==
    /\ prog = "cpu16"
    /\ iterations \in 0..MaxK
    /\ origin = NoImage
    /\ target = NoImage
    /\ \E so \in OriginSamples, st \in TargetSamples :
          /\ src_block = SampleBlock(so, N_compute)
          /\ tgt_block = SampleBlock(st, N_compute)
    /\ backend = NoBackend

\* compute.rs: a caller holds a WgpuApproximator and a block pair
InitWgpu ==
    /\ prog = "wgpu"
    /\ iterations = 0
    /\ origin = NoImage
    /\ target = NoImage
    /\ \E so \in OriginSamples, st \in TargetSamples :
          /\ src_block = SampleBlock(so, N_compute)
          /\ tgt_block = SampleBlock(st, N_compute)
    /\ backend \in Backends

Init == InitCommon /\ (InitMain \/ InitCpu16 \/ InitWgpu)

----------------------------------------------------------------------------
(* main and approximate_image of main.rs *)

\* let mut result_origin = image::imageops::grayscale(input)
ResultOriginInit(inp, tgt) == Grayscale(inp)

\* mutation: result_target starts as a copy of target
ResultTargetFromTarget(inp, tgt) == Grayscale(tgt)

\* let mut result_target = image::imageops::grayscale(input)
ResultTargetInit(inp, tgt) == Grayscale(inp)

\* mutation: total_error = error
AccumulateLast(total, err) == err

\* total_error += error
Accumulate(total, err) == F32Add(total, err)

\* the value approximate_image returns
ImageResult(ro, rt, total) == <<ro, rt>>

\* main: the dimensions differ, main prints and returns
MainDimMismatch ==
    /\ pc = "start"
    /\ prog = "main"
    /\ <<target.w, target.h>> # <<origin.w, origin.h>>
    /\ input' = MapColors(origin)
    /\ stdout' = Append(stdout, <<"origin and target image must have same size">>)
    /\ pc' = "done"
    /\ UNCHANGED <<prog, build, iterations, origin, target, result_origin,
                   result_target, i, j, total_error, backend, ret, panic, calls,
                   wcount_origin, wcount_target>>
    /\ UNCHANGED searchVars

\* main calls approximate_image, which allocates the two output images
MainStart ==
    /\ pc = "start"
    /\ prog = "main"
    /\ <<target.w, target.h>> = <<origin.w, origin.h>>
    /\ input' = MapColors(origin)
    /\ result_origin' = ResultOriginInit(input', target)
    /\ result_target' = ResultTargetInit(input', target)
    /\ total_error' = 0
    /\ i' = 0
    /\ j' = 0
    /\ wcount_origin' = [k \in 1..Len(origin.px) |-> 0]
    /\ wcount_target' = [k \in 1..Len(origin.px) |-> 0]
    /\ stdout' = Append(stdout, <<"image dimensions", origin.w, origin.h>>)
    /\ pc' = IF TilesX(origin) > 0 /\ TilesY(origin) > 0 THEN "tile" ELSE "print"
    /\ UNCHANGED <<prog, build, iterations, origin, target, backend, ret, panic, calls>>
    /\ UNCHANGED searchVars

\* the body of the inner loop up to the call: the two crops, then the entry
\* of approximate
TileBegin ==
    /\ pc = "tile"
    /\ src_block' = Crop(input, i * Tile, j * Tile)
    /\ tgt_block' = Crop(target, i * Tile, j * Tile)
    /\ best_origin' = Zeros(N)
    /\ best_target' = Zeros(N)
    /\ error' = F32_MAX
    /\ iter' = 0
    /\ trials' = <<>>
    /\ pc' = "search"
    /\ UNCHANGED <<prog, build, iterations, backend, ret, stdout, panic>>
    /\ UNCHANGED imgVars

\* a panic ends the program
Panic(msg) ==
    /\ pc' = "panicked"
    /\ panic' = msg
    /\ UNCHANGED <<prog, build, iterations, backend, ret, stdout>>
    /\ UNCHANGED imgVars
    /\ UNCHANGED searchVars

\* one iteration of the for loop of Sha512CpuApproximator::approximate
Trial ==
    /\ pc = "search"
    /\ iter < iterations
    /\ \E p \in 0..MaxDelta :
        LET delta          == Delta(p, N)
            current_origin == AddBlocks(delta, src_block, N)
            result         == Sha512(AsSlice(current_origin))
            shaped         == IntoShape(result, N)
            current_target == shaped.blk
            trial_error    == SquaredError(tgt_block, current_target, N)
        IN  IF build = "debug" /\ DeltaOverflows(delta, src_block, N)
            THEN Panic("attempt to add with overflow")
            ELSE IF ~shaped.ok
            THEN Panic("into_shape: ShapeError")
            ELSE /\ error' = NextError(error, trial_error)
                 /\ best_origin' = NextOrigin(error, trial_error, best_origin, current_origin)
                 /\ best_target' = NextTarget(error, trial_error, best_target, current_target)
                 /\ iter' = iter + 1
                 /\ trials' = Append(trials, [error |-> trial_error,
                                              origin |-> current_origin,
                                              target |-> current_target])
                 /\ pc' = "search"
                 /\ UNCHANGED <<prog, build, iterations, src_block, tgt_block,
                                backend, ret, stdout, panic>>
                 /\ UNCHANGED imgVars

\* the locals of approximate are dropped when it returns
SearchDropped ==
    /\ src_block' = NoBlock
    /\ tgt_block' = NoBlock
    /\ best_origin' = NoBlock
    /\ best_target' = NoBlock
    /\ error' = F32_MAX
    /\ iter' = 0
    /\ trials' = <<>>

\* approximate returns to approximate_image: the rest of the loop body
TileCommit ==
    /\ pc = "search"
    /\ prog = "main"
    /\ iter = iterations
    /\ total_error' = Accumulate(total_error, error)
    /\ result_origin' = PutBlock(result_origin, i, j, best_origin)
    /\ result_target' = PutBlock(result_target, i, j, best_target)
    /\ wcount_origin' = CountBlock(wcount_origin, result_origin, i, j)
    /\ wcount_target' = CountBlock(wcount_target, result_target, i, j)
    /\ calls' = Append(calls, [x |-> i * Tile, y |-> j * Tile,
                               input |-> src_block, target |-> tgt_block,
                               error |-> error, origin |-> best_origin,
                               digest |-> best_target])
    /\ IF j + 1 < TilesY(input)
       THEN /\ j' = j + 1
            /\ i' = i
            /\ pc' = "tile"
       ELSE /\ j' = 0
            /\ i' = i + 1
            /\ pc' = IF i + 1 < TilesX(input) THEN "tile" ELSE "print"
    /\ SearchDropped
    /\ UNCHANGED <<prog, build, iterations, origin, input, target, backend, ret,
                   stdout, panic>>

\* after the loops: println!("Total error: ..") and the return
ImageReturn ==
    /\ pc = "print"
    /\ stdout' = Append(stdout, <<"Total error", total_error>>)
    /\ ret' = ImageResult(result_origin, result_target, total_error)
    /\ pc' = "done"
    /\ UNCHANGED <<prog, build, iterations, backend, panic>>
    /\ UNCHANGED imgVars
    /\ UNCHANGED searchVars

----------------------------------------------------------------------------
(* The approximators of compute.rs, called on a block pair *)

\* entry of Sha512CpuApproximator::approximate
CpuCall ==
    /\ pc = "start"
    /\ prog = "cpu16"
    /\ best_origin' = Zeros(N)
    /\ best_target' = Zeros(N)
    /\ error' = F32_MAX
    /\ iter' = 0
    /\ trials' = <<>>
    /\ pc' = "search"
    /\ UNCHANGED <<prog, build, iterations, src_block, tgt_block, backend, ret,
                   stdout, panic>>
    /\ UNCHANGED imgVars

\* (error, best_source, best_target)
CpuReturn ==
    /\ pc = "search"
    /\ prog = "cpu16"
    /\ iter = iterations
    /\ ret' = <<error, best_origin, best_target>>
    /\ pc' = "done"
    /\ SearchDropped
    /\ UNCHANGED <<prog, build, iterations, backend, stdout, panic>>
    /\ UNCHANGED imgVars

\* WgpuApproximator::approximate
WgpuApproximate ==
    /\ pc = "start"
    /\ prog = "wgpu"
    /\ LET vals   == Run(ExecuteGpu(backend, AsSlice(src_block)))
           result == IntoShape(vals.data, N)
       IN  IF vals.kind = "panic"
           THEN Panic(vals.msg)
           ELSE IF ~result.ok
           THEN Panic("from_shape_vec: ShapeError")
           ELSE /\ ret' = WgpuTriple(src_block, result.blk)
                /\ pc' = "done"
                /\ UNCHANGED <<prog, build, iterations, backend, stdout, panic>>
                /\ UNCHANGED imgVars
                /\ UNCHANGED searchVars

----------------------------------------------------------------------------

Next ==
    \/ MainDimMismatch
    \/ MainStart
    \/ TileBegin
    \/ Trial
    \/ TileCommit
    \/ ImageReturn
    \/ CpuCall
    \/ CpuReturn
    \/ WgpuApproximate

Spec == Init /\ [][Next]_vars

----------------------------------------------------------------------------
(* Properties of the sequential search (Sha512CpuApproximator) *)

\* a step that completes one iteration of the for loop
TrialStep == pc = "search" /\ pc' = "search" /\ iter' = iter + 1

\* a step in which approximate returns to its caller
ReturnStep == pc = "search" /\ pc' \in {"tile", "print", "done"}

\* the triple the returning call handed to its caller
Returned ==
    IF prog = "main"
    THEN <<calls[Len(calls)].error, calls[Len(calls)].origin, calls[Len(calls)].digest>>
    ELSE ret

\* the index of the first trial of ts whose error is the minimum over ts
FirstMin(ts) ==
    CHOOSE k \in 1..Len(ts) :
        /\ \A m \in 1..Len(ts) : ts[k].error <= ts[m].error
        /\ \A m \in 1..(k - 1) : ts[m].error > ts[k].error

TripleOf(t) == <<t.error, t.origin, t.target>>

\* C1: for K >= 1, approximate returns the triple (error, candidate source,
\* digest block) of the first trial, in iteration order, whose squared error
\* is the minimum over all K trials; a trial replaces the best-known triple
\* only when its error is strictly less than the best error so far, so a
\* trial that ties the current best never replaces it.
C1_ReturnsFirstMinimum ==
    [][ /\ TrialStep =>
            /\ <<error', best_origin', best_target'>> = TripleOf(trials'[FirstMin(trials')])
            /\ <<error', best_origin', best_target'>> # <<error, best_origin, best_target>>
                   => trials'[Len(trials')].error < error
        /\ (ReturnStep /\ iterations >= 1) =>
            Returned' = TripleOf(trials[FirstMin(trials)])
      ]_vars

\* a call is about to return after a later trial tied the first one with a
\* different candidate
C1_Witness ==
    /\ prog = "main"
    /\ pc = "search"
    /\ iter = iterations
    /\ Len(trials) >= 2
    /\ trials[2].error = trials[1].error
    /\ trials[2].origin # trials[1].origin
    /\ trials[2].target # trials[1].target
    /\ best_origin = trials[1].origin

\* C8: across the iterations of one call the best error never increases:
\* after each iteration it is at most its value before that iteration, and
\* the search starts from the maximum representable error, so K + 1
\* iterations on the same trials return an error <= that of K iterations.
C8_BestErrorNeverIncreases ==
    [][ /\ TrialStep => error' <= error
        /\ (pc # "search" /\ pc' = "search") => error' = F32_MAX
      ]_vars

\* the second trial of a call strictly lowered the best error of the first
C8_Witness ==
    /\ pc = "search"
    /\ iter = 2
    /\ trials[2].error < trials[1].error
    /\ error = trials[2].error

\* C10: after every iteration k >= 1 the best-known triple comes from one
\* single trial: best source = source block + d for a perturbation d with
\* cells in [0, DISTORTION), best digest block is the digest block of that
\* best source, best error is the squared error of the target block against
\* that digest block.  With K = 0 the call returns the initial state: the
\* maximum representable error and two all-zero blocks.
C10_BestTripleFromOneTrial ==
    /\ (pc = "search" /\ iter >= 1) =>
          /\ \A k \in 1..(N * N) :
                best_origin.data[k] - src_block.data[k] \in 0..(DISTORTION - 1)
          /\ best_origin.dim = <<N, N>>
          /\ best_target = IntoShape(Sha512(AsSlice(best_origin)), N).blk
          /\ error = SquaredError(tgt_block, best_target, N)
    /\ (pc = "search" /\ iter = 0) =>
          <<error, best_origin, best_target>> = <<F32_MAX, Zeros(N), Zeros(N)>>
    /\ (iterations = 0 /\ prog = "cpu16" /\ pc = "done") =>
          ret = <<F32_MAX, Zeros(N_compute), Zeros(N_compute)>>
    /\ (iterations = 0 /\ prog = "main") =>
          \A k \in 1..Len(calls) :
             <<calls[k].error, calls[k].origin, calls[k].digest>>
                = <<F32_MAX, Zeros(N_main), Zeros(N_main)>>

\* the second trial of a call was worse than the first and was discarded
C10_Witness ==
    /\ pc = "search"
    /\ iter = 2
    /\ trials[2].error > trials[1].error
    /\ trials[2].target # trials[1].target
    /\ best_target = trials[1].target

\* C5: the element-wise addition candidate_source = source_block +
\* perturbation never aborts on overflow, for source cells anywhere in
\* 0..=255, the value 255 included.
C5_AdditionNeverAborts == panic # "attempt to add with overflow"

\* C6: in every configuration of the sequential search (N = 8 and N = 16)
\* the digest's byte length equals N * N, and the reshape of the digest into
\* an N x N block succeeds in every iteration.
C6_DigestFillsBlock ==
    /\ pc = "search" => DigestLen = N * N
    /\ panic # "into_shape: ShapeError"

----------------------------------------------------------------------------
(* Properties of the tiling driver (approximate_image) *)

\* approximate_image has been entered
InImage ==
    prog = "main" /\ pc \in {"tile", "search", "print", "done"} /\ result_origin # NoImage

\* approximate_image has returned
ImageDone == InImage /\ pc = "done"

\* the calls made on the tile (a, b)
CallsOn(a, b) == {k \in 1..Len(calls) : calls[k].x = Tile * a /\ calls[k].y = Tile * b}

WholeTiles(img) == (0..(TilesX(img) - 1)) \X (0..(TilesY(img) - 1))

\* the pixels of img covered by whole tiles
Covered(img, k) ==
    /\ PixelX(img, k) < Tile * TilesX(img)
    /\ PixelY(img, k) < Tile * TilesY(img)

\* C2: for every whole tile (i, j) approximate_image invokes the
\* approximator exactly once, on the source and target blocks cropped at
\* pixel offset (8i, 8j), and writes the returned blocks into the 8x8 region
\* at that offset of the respective output image (cell [row r, column c] at
\* pixel x = 8i + c, y = 8j + r); the regions are disjoint, every pixel of a
\* whole tile is written exactly once in each output image, and a 16x16
\* image yields exactly 4 invocations at (0,0), (0,8), (8,0), (8,8).
C2_EachTileOnce ==
    InImage =>
        /\ \A t \in WholeTiles(input) : Cardinality(CallsOn(t[1], t[2])) <= 1
        /\ \A k \in 1..Len(calls) :
              /\ \E t \in WholeTiles(input) : k \in CallsOn(t[1], t[2])
              /\ calls[k].input = Crop(input, calls[k].x, calls[k].y)
              /\ calls[k].target = Crop(target, calls[k].x, calls[k].y)
              /\ \A r \in 0..(Tile - 1), c \in 0..(Tile - 1) :
                    /\ GetPixel(result_origin, calls[k].x + c, calls[k].y + r)
                          = Cell(calls[k].origin, r, c)
                    /\ GetPixel(result_target, calls[k].x + c, calls[k].y + r)
                          = Cell(calls[k].digest, r, c)
        /\ \A k \in 1..Len(input.px) :
              /\ wcount_origin[k] <= 1
              /\ wcount_target[k] <= 1
        /\ pc \in {"print", "done"} =>
              /\ \A t \in WholeTiles(input) : Cardinality(CallsOn(t[1], t[2])) = 1
              /\ \A k \in 1..Len(input.px) :
                    Covered(input, k) => wcount_origin[k] = 1 /\ wcount_target[k] = 1
              /\ <<input.w, input.h>> = <<16, 16>> =>
                    [k \in 1..Len(calls) |-> <<calls[k].x, calls[k].y>>]
                       = << <<0, 0>>, <<0, 8>>, <<8, 0>>, <<8, 8>> >>

\* a 16x16 image has been processed with at least one trial per tile
C2_Witness ==
    /\ ImageDone
    /\ <<input.w, input.h>> = <<16, 16>>
    /\ iterations >= 1
    /\ Len(calls) = 4
    /\ calls[2].digest # calls[3].digest

\* C3: for every image whose width or height is not a multiple of 8,
\* approximate_image never invokes the approximator on, and never writes
\* to, a pixel with x >= 8 * floor(W/8) or y >= 8 * floor(H/8); in both
\* returned images every such pixel holds the value of the same pixel of the
\* source image given to approximate_image, and no error is raised.
C3_RemainderUntouched ==
    (prog = "main" /\ (origin.w % Tile # 0 \/ origin.h % Tile # 0)) =>
        /\ panic = "none"
        /\ pc # "panicked"
        /\ InImage =>
              /\ \A k \in 1..Len(calls) :
                    /\ calls[k].x + Tile <= Tile * TilesX(input)
                    /\ calls[k].y + Tile <= Tile * TilesY(input)
              /\ \A k \in 1..Len(input.px) :
                    ~Covered(input, k) =>
                       /\ wcount_origin[k] = 0
                       /\ wcount_target[k] = 0
                       /\ result_origin.px[k] = input.px[k]
                       /\ result_target.px[k] = input.px[k]
        /\ ImageDone => ret = <<result_origin, result_target>>

\* an image with a remainder strip that differs from the target's has been
\* processed, whole tiles written
C3_Witness ==
    /\ ImageDone
    /\ input.w % Tile # 0
    /\ Len(calls) >= 1
    /\ iterations >= 1
    /\ \E k \in 1..Len(input.px) :
          ~Covered(input, k) /\ input.px[k] # target.px[k]

\* the errors the approximator returned, in call order
RECURSIVE ExactSum(_)
ExactSum(n) == IF n = 0 THEN 0 ELSE ExactSum(n - 1) + calls[n].error

\* their sum accumulated in f32
RECURSIVE F32Sum(_)
F32Sum(n) == IF n = 0 THEN 0 ELSE F32Add(F32Sum(n - 1), calls[n].error)

Finite(n) == \A k \in 1..n : calls[k].error < F32_MAX

\* C4 as stated: approximate_image returns to its caller both output images
\* and the accumulated scalar error, which equals the sum of the errors the
\* approximator returned over all whole-tile invocations.
C4_ReturnsImagesAndError ==
    ImageDone =>
        /\ Len(ret) = 3
        /\ ret[1] = result_origin
        /\ ret[2] = result_target
        /\ Finite(Len(calls)) => ret[3] = ExactSum(Len(calls))

\* C4 amended: approximate_image returns to its caller the two output images
\* only; the accumulated scalar error is printed ("Total error: ..") before
\* the return and equals the sum, accumulated in f32 in call order, of the
\* errors the approximator returned over all whole-tile invocations: 0 when
\* there are no whole tiles, the exact sum while that is at most 2^24.
C4_ReturnsImagesPrintsError ==
    ImageDone =>
        /\ ret = <<result_origin, result_target>>
        /\ stdout[Len(stdout)] = <<"Total error", total_error>>
        /\ total_error = F32Sum(Len(calls))
        /\ Len(calls) = 0 => total_error = 0
        /\ (Finite(Len(calls)) /\ ExactSum(Len(calls)) <= F32_EXACT) =>
              total_error = ExactSum(Len(calls))

\* several tiles with different finite errors have been summed
C4_Witness ==
    /\ ImageDone
    /\ Len(calls) >= 2
    /\ Finite(Len(calls))
    /\ calls[1].error # calls[2].error
    /\ total_error = ExactSum(Len(calls))
    /\ total_error > calls[Len(calls)].error

----------------------------------------------------------------------------
(* Properties of WgpuApproximator *)

\* C7: a WgpuApproximator.approximate call that completes returns an error
\* of exactly 0 and a reconstructed-source block equal cell for cell to the
\* unmodified input block, whatever the target block and whatever the
\* compute backend returned.
C7_WgpuReturnsZeroAndInput ==
    (prog = "wgpu" /\ pc = "done") =>
        /\ Len(ret) = 3
        /\ ret[1] = 0
        /\ ret[2] = src_block
        /\ \A m \in 0..(N - 1), n \in 0..(N - 1) : Cell(ret[2], m, n) = Cell(src_block, m, n)

\* a call completed whose backend returned the sentinel and whose result
\* differs from the input
C7_Witness ==
    /\ prog = "wgpu"
    /\ pc = "done"
    /\ ret[3] # src_block
    /\ tgt_block # src_block
    /\ \E k \in 1..(N * N) : Kernel(backend.kernel, src_block.data[k]) = OVERFLOW

\* the backend yields no usable compute device
NoDevice == backend.kind \in {"no_adapter", "skipped"}

====
